---------------------------- MODULE Spec2Model ----------------------------
(***************************************************************************)
(* Model of arsdkprotoparser.py: ProtoParser.parseFile and the extraction  *)
(* and type-resolution functions it calls.                                 *)
(*                                                                         *)
(* Python strings are sequences of one-character strings, so that          *)
(* concatenation, endswith, split and capitalize are computed character by *)
(* character.  A parse-result item is a record whose field names are the   *)
(* results names of the grammar (messageId, messageBody, ...), so that     *)
(* `NAME in item` is  NAME \in DOMAIN item.                                *)
(***************************************************************************)
EXTENDS Integers, Sequences, FiniteSets, TLC

(***************************************************************************)
(* Strings                                                                 *)
(***************************************************************************)
LowerAlpha == <<"a","b","c","d","e","f","g","h","i","j","k","l","m",
                "n","o","p","q","r","s","t","u","v","w","x","y","z">>
UpperAlpha == <<"A","B","C","D","E","F","G","H","I","J","K","L","M",
                "N","O","P","Q","R","S","T","U","V","W","X","Y","Z">>

\* str.upper() / str.lower() on one character
upper(c) ==
    IF \E i \in DOMAIN LowerAlpha : LowerAlpha[i] = c
    THEN UpperAlpha[CHOOSE i \in DOMAIN LowerAlpha : LowerAlpha[i] = c]
    ELSE c
lower(c) ==
    IF \E i \in DOMAIN UpperAlpha : UpperAlpha[i] = c
    THEN LowerAlpha[CHOOSE i \in DOMAIN UpperAlpha : UpperAlpha[i] = c]
    ELSE c

\* str.capitalize(): first character upper-cased, the others lower-cased
capitalize(s) ==
    [i \in DOMAIN s |-> IF i = 1 THEN upper(s[i]) ELSE lower(s[i])]

\* str.split(sep) for a one-character sep: the segments between separators,
\* empty segments included
RECURSIVE splitFrom(_, _, _)
splitFrom(s, sep, cur) ==
    IF s = <<>> THEN <<cur>>
    ELSE IF Head(s) = sep THEN <<cur>> \o splitFrom(Tail(s), sep, <<>>)
    ELSE splitFrom(Tail(s), sep, Append(cur, Head(s)))
split(s, sep) == splitFrom(s, sep, <<>>)

\* sep.join(parts)
RECURSIVE join(_, _)
join(parts, sep) ==
    IF parts = <<>> THEN <<>>
    ELSE IF Len(parts) = 1 THEN parts[1]
    ELSE parts[1] \o <<sep>> \o join(Tail(parts), sep)

\* string.capwords(s, sep)
capwords(s, sep) ==
    join([i \in DOMAIN split(s, sep) |-> capitalize(split(s, sep)[i])], sep)

\* str.replace(old, new) for one-character old and new
replace(s, old, new) == [i \in DOMAIN s |-> IF s[i] = old THEN new ELSE s[i]]

\* str.endswith(suffix)
endswith(s, suffix) ==
    /\ Len(suffix) <= Len(s)
    /\ SubSeq(s, Len(s) - Len(suffix) + 1, Len(s)) = suffix

(***************************************************************************)
(* Grammar Engine (class attributes of ProtoParser).                       *)
(*                                                                         *)
(* The source text is a sequence of tokens [k |-> kind, s |-> text]: kind  *)
(* is a keyword, a punctuation mark, "ident", "int", "str" (a quoted       *)
(* string), or "junk" (a character no rule matches).  A grammar rule is an *)
(* operator rule(ts, p) that matches at position p of ts and returns       *)
(*   [st |-> "ok", pos |-> next position, val |-> its result]  or          *)
(*   [st |-> "fail"]   a ParseException: the caller may try something else *)
(*   [st |-> "fatal"]  a ParseSyntaxException, raised by a mismatch after  *)
(*                     the '-' operator: no alternative is tried           *)
(* The rules modelled are the ones over this token alphabet; option,       *)
(* reserved, extensions, service and field directives need tokens outside  *)
(* it.  The Dict of enumDefn makes the name of every enum value a key of   *)
(* the enum's item; the keys kept here are the ones the code tests for,    *)
(* the results names.                                                      *)
(***************************************************************************)
PACKAGE_NAME_RES == "packageName"
MSG_ID_RES == "messageId"
MSG_BODY_RES == "messageBody"
ONEOF_BODY_RES == "oneOfBody"
FIELD_ID_RES == "fieldId"
FIELD_TYPE_RES == "fieldType"
FIELD_NB_RES == "fieldNumber"
ENUM_ID_RES == "enumId"

\* the keywords of kwds that occur in the token alphabet
kwds == {"message", "required", "optional", "repeated", "enum", "extend",
         "package", "import", "syntax", "oneof", "map"}

Ok(p, v) == [st |-> "ok", pos |-> p, val |-> v]
Fail(p) == [st |-> "fail", pos |-> p, val |-> <<>>]
Fatal(p) == [st |-> "fatal", pos |-> p, val |-> <<>>]

tok(ts, p) == IF p \in DOMAIN ts THEN ts[p] ELSE [k |-> "eof", s |-> <<>>]
is(ts, p, k) == tok(ts, p).k = k

\* ident = Word(alphas + "_.", alphanums + "_."): a Word also matches the
\* spelling of a keyword
ident(ts, p) == tok(ts, p).k \in kwds \cup {"ident"}
\* integer = Regex(r"[+-]?\d+")
integer(ts, p) == is(ts, p, "int")

\* MatchFirst: the first alternative that does not fail
orElse(first, second) == IF first.st # "fail" THEN first ELSE second

\* ZeroOrMore, given the result for one more element and for the elements
\* after it: no more element, a fatal mismatch, or one element more
noMore(p, one) == IF one.st = "fail" THEN Ok(p, <<>>) ELSE one
cons(one, rest) ==
    IF rest.st # "ok" THEN rest ELSE Ok(rest.pos, <<one.val>> \o rest.val)

\* rbrace as if the closing brace followed a '+': its absence is a failure
\* the caller may recover from
rbraceSoft(ts, b, val) ==
    IF b.st # "ok" THEN b
    ELSE IF ~is(ts, b.pos, "}") THEN Fail(b.pos)
    ELSE Ok(b.pos + 1, val)

\* ... + RBRACE after a '-': the body b, then the closing brace
rbrace(ts, b, val) ==
    IF b.st # "ok" THEN b
    ELSE IF ~is(ts, b.pos, "}") THEN Fatal(b.pos)
    ELSE Ok(b.pos + 1, val)

\* mapDefn = MAP_ - LESSER + oneOf(key types) + COMMA + ident + GREATER
mapDefn(ts, p) ==
    IF ~is(ts, p, "map") THEN Fail(p)
    ELSE IF /\ is(ts, p + 1, "<") /\ is(ts, p + 2, "ident")
            /\ is(ts, p + 3, ",") /\ ident(ts, p + 4) /\ is(ts, p + 5, ">")
         THEN Ok(p + 6, [pr |-> TRUE,
                         toks |-> <<tok(ts, p).s, tok(ts, p + 2).s, tok(ts, p + 4).s>>])
         ELSE Fatal(p + 1)

\* typespec = oneOf(primitive types) | mapDefn | ident.  A primitive type is
\* an "ident" token, which the first and the last alternative give the same
\* one-token result.  val.pr tells a ParseResults (several tokens) from a str.
typespec(ts, p) ==
    IF is(ts, p, "map") THEN mapDefn(ts, p)
    ELSE IF ident(ts, p) THEN Ok(p + 1, [pr |-> FALSE, toks |-> <<tok(ts, p).s>>])
    ELSE Fail(p)

fieldDefnPrefix == {"required", "optional", "repeated"}

\* ... + ident(FIELD_ID_RES) + EQ + integer(FIELD_NB_RES) + SEMI, after the
\* typespec t
fieldRest(ts, t) ==
    IF t.st # "ok" THEN t
    ELSE IF /\ ident(ts, t.pos) /\ is(ts, t.pos + 1, "=")
            /\ integer(ts, t.pos + 2) /\ is(ts, t.pos + 3, ";")
         THEN Ok(t.pos + 4, [fieldType |-> t.val, fieldId |-> tok(ts, t.pos).s,
                             fieldNumber |-> tok(ts, t.pos + 2).s])
         ELSE Fail(t.pos)

\* fieldDefn = Optional(fieldDefnPrefix) + typespec(FIELD_TYPE_RES) + ...
fieldDefn(ts, p) ==
    fieldRest(ts, typespec(ts, IF tok(ts, p).k \in fieldDefnPrefix THEN p + 1 ELSE p))

\* oneOfBody << Group(ZeroOrMore(Group(fieldDefn)))
RECURSIVE oneOfBody(_, _)
oneOfMore(ts, p, f) ==
    IF f.st # "ok" THEN noMore(p, f) ELSE cons(f, oneOfBody(ts, f.pos))
oneOfBody(ts, p) == oneOfMore(ts, p, fieldDefn(ts, p))

\* oneOfDefn = ONEOF_ - ident + LBRACE + oneOfBody(ONEOF_BODY_RES) + RBRACE
oneOfClose(ts, b) == rbrace(ts, b, [oneOfBody |-> b.val])
oneOfDefn(ts, p) ==
    IF ~is(ts, p, "oneof") THEN Fail(p)
    ELSE IF ~(ident(ts, p + 1) /\ is(ts, p + 2, "{")) THEN Fatal(p + 1)
    ELSE oneOfClose(ts, oneOfBody(ts, p + 3))

\* the spelling of each results name
resultsNames ==
    [packageName |-> <<"p","a","c","k","a","g","e","N","a","m","e">>,
     messageId |-> <<"m","e","s","s","a","g","e","I","d">>,
     messageBody |-> <<"m","e","s","s","a","g","e","B","o","d","y">>,
     oneOfBody |-> <<"o","n","e","O","f","B","o","d","y">>,
     fieldId |-> <<"f","i","e","l","d","I","d">>,
     fieldType |-> <<"f","i","e","l","d","T","y","p","e">>,
     fieldNumber |-> <<"f","i","e","l","d","N","u","m","b","e","r">>,
     enumId |-> <<"e","n","u","m","I","d">>]

\* what item[key] is once the Dict has set it to the str number: where the
\* code iterates it, it gets its characters, each a str that holds no
\* results name
dictValue(key, number) ==
    IF key \in {MSG_BODY_RES, ONEOF_BODY_RES}
    THEN [i \in DOMAIN number |-> [chr |-> number[i]]]
    ELSE IF key = FIELD_TYPE_RES THEN [pr |-> FALSE, toks |-> <<number>>]
    ELSE number

\* Dict: item[name] = number for a value  name = number;  a key set before,
\* by an earlier value or by a results name, is overwritten
setKey(item, name, number) ==
    IF \E key \in DOMAIN resultsNames : resultsNames[key] = name
    THEN LET key == CHOOSE key \in DOMAIN resultsNames : resultsNames[key] = name
         IN  (key :> dictValue(key, number)) @@ item
    ELSE item

\* the item of an enum after the values from position p on
RECURSIVE enumDict(_, _, _)
enumDict(ts, p, item) ==
    IF /\ ident(ts, p) /\ is(ts, p + 1, "=")
       /\ integer(ts, p + 2) /\ is(ts, p + 3, ";")
    THEN enumDict(ts, p + 4, setKey(item, tok(ts, p).s, tok(ts, p + 2).s))
    ELSE item

\* the values of an enum: ZeroOrMore(Group(ident + EQ + integer + SEMI));
\* the position after them
RECURSIVE enumValues(_, _)
enumValues(ts, p) ==
    IF /\ ident(ts, p) /\ is(ts, p + 1, "=")
       /\ integer(ts, p + 2) /\ is(ts, p + 3, ";")
    THEN enumValues(ts, p + 4)
    ELSE p

\* enumDefn = ENUM_ - ident(ENUM_ID_RES) + LBRACE + Dict(...) + RBRACE
enumDefn(ts, p) ==
    IF ~is(ts, p, "enum") THEN Fail(p)
    ELSE IF ~(ident(ts, p + 1) /\ is(ts, p + 2, "{")) THEN Fatal(p + 1)
    ELSE rbrace(ts, Ok(enumValues(ts, p + 3), <<>>),
                enumDict(ts, p + 3, [unnamed |-> <<tok(ts, p).s, tok(ts, p + 1).s>>,
                                     enumId |-> tok(ts, p + 1).s]))

RECURSIVE messageBody(_, _)

\* messageDefn = MESSAGE_ - ident(MSG_ID_RES) + LBRACE
\*               + messageBody(MSG_BODY_RES) + RBRACE
messageClose(ts, name, b) == rbrace(ts, b, [messageId |-> name, messageBody |-> b.val])
messageDefn(ts, p) ==
    IF ~is(ts, p, "message") THEN Fail(p)
    ELSE IF ~(ident(ts, p + 1) /\ is(ts, p + 2, "{")) THEN Fatal(p + 1)
    ELSE messageClose(ts, tok(ts, p + 1).s, messageBody(ts, p + 3))

\* messageExtension = EXTEND_ - ident + LBRACE + messageBody + RBRACE
\* Neither the name nor the body has a results name.
messageExtension(ts, p) ==
    IF ~is(ts, p, "extend") THEN Fail(p)
    ELSE IF ~(ident(ts, p + 1) /\ is(ts, p + 2, "{")) THEN Fatal(p + 1)
    ELSE rbrace(ts, messageBody(ts, p + 3),
                [unnamed |-> <<tok(ts, p).s, tok(ts, p + 1).s>>])

\* messageBody << Group(ZeroOrMore(Group(fieldDefn | enumDefn | messageDefn
\*                       | messageExtension | oneOfDefn)))
messageBodyItem(ts, p) ==
    orElse(fieldDefn(ts, p),
    orElse(enumDefn(ts, p),
    orElse(messageDefn(ts, p),
    orElse(messageExtension(ts, p),
           oneOfDefn(ts, p)))))
messageMore(ts, p, i) ==
    IF i.st # "ok" THEN noMore(p, i) ELSE cons(i, messageBody(ts, i.pos))
messageBody(ts, p) == messageMore(ts, p, messageBodyItem(ts, p))

\* syntaxDefn = SYNTAX_ + EQ - quotedString + SEMI
syntaxDefn(ts, p) ==
    IF ~(is(ts, p, "syntax") /\ is(ts, p + 1, "=")) THEN Fail(p)
    ELSE IF ~(is(ts, p + 2, "str") /\ is(ts, p + 3, ";")) THEN Fatal(p + 2)
    ELSE Ok(p + 4, [unnamed |-> <<tok(ts, p).s, tok(ts, p + 2).s>>])

\* packageDirective = PACKAGE_ - ident(PACKAGE_NAME_RES) + SEMI
packageDirective(ts, p) ==
    IF ~is(ts, p, "package") THEN Fail(p)
    ELSE IF ~(ident(ts, p + 1) /\ is(ts, p + 2, ";")) THEN Fatal(p + 1)
    ELSE Ok(p + 3, [packageName |-> tok(ts, p + 1).s])

\* importDirective = IMPORT_ - quotedString + SEMI
importDirective(ts, p) ==
    IF ~is(ts, p, "import") THEN Fail(p)
    ELSE IF ~(is(ts, p + 1, "str") /\ is(ts, p + 2, ";")) THEN Fatal(p + 1)
    ELSE Ok(p + 3, [unnamed |-> <<tok(ts, p).s, tok(ts, p + 1).s>>])

\* topLevelStatement = Group(messageDefn | messageExtension | enumDefn
\*                     | importDirective | syntaxDefn | packageDirective)
topLevelStatement(ts, p) ==
    orElse(messageDefn(ts, p),
    orElse(messageExtension(ts, p),
    orElse(enumDefn(ts, p),
    orElse(importDirective(ts, p),
    orElse(syntaxDefn(ts, p),
           packageDirective(ts, p))))))

\* parser = ZeroOrMore(self.topLevelStatement); parser.parseFile(filepath,
\* parseAll=False): the statements matched up to the first position where
\* none matches; a fatal mismatch raises.
RECURSIVE parser(_, _)
\* parserMore as with parseAll=True: text left where no statement matches
\* raises
parserMoreAll(ts, p, i) ==
    IF i.st = "fail" /\ p <= Len(ts) THEN Fatal(p)
    ELSE IF i.st # "ok" THEN noMore(p, i)
    ELSE cons(i, parser(ts, i.pos))

parserMore(ts, p, i) ==
    IF i.st # "ok" THEN noMore(p, i) ELSE cons(i, parser(ts, i.pos))
parser(ts, p) == parserMore(ts, p, topLevelStatement(ts, p))

(***************************************************************************)
(* Model Extractor: the functions of ProtoParser that walk the parse       *)
(* results.                                                                *)
(***************************************************************************)
None == [none |-> TRUE]

\* Message.__init__
Message(id) == [id |-> id, fields |-> <<>>]

\* addField as self.fields = {id: number}: the entries made before are lost
addFieldOnly(message, id, number) ==
    [message EXCEPT !.fields = <<<<id, number>>>>]

\* Message.addField: self.fields[id] = number.  fields is a dict, kept as
\* the sequence of its <<key, value>> pairs in insertion order: assigning to
\* a key it holds replaces the value in place.
addField(message, id, number) ==
    IF \E i \in DOMAIN message.fields : message.fields[i][1] = id
    THEN [message EXCEPT !.fields =
            [i \in DOMAIN message.fields |->
                IF message.fields[i][1] = id THEN <<id, number>>
                ELSE message.fields[i]]]
    ELSE [message EXCEPT !.fields = Append(message.fields, <<id, number>>)]

\* Command.__init__
Command(id, serviceId) == [commandId |-> id, serviceId |-> serviceId, oneOf |-> <<>>]

\* Command.addOneOf
addOneOf(cmd, id, msgType, number) ==
    [cmd EXCEPT !.oneOf = Append(cmd.oneOf,
                                 [id |-> id, type |-> msgType, number |-> number])]

\* getPackageName: the package name of the first item that has one, else ""
getPackageName(parseResults) ==
    IF \E i \in DOMAIN parseResults : PACKAGE_NAME_RES \in DOMAIN parseResults[i]
    THEN parseResults[CHOOSE i \in DOMAIN parseResults :
            /\ PACKAGE_NAME_RES \in DOMAIN parseResults[i]
            /\ \A j \in 1..(i - 1) : PACKAGE_NAME_RES \notin DOMAIN parseResults[j]
         ].packageName
    ELSE <<>>

\* getBaseName without the replace(".", "_")
getBaseNameDotted(parseResults) ==
    IF \E i \in DOMAIN parseResults : PACKAGE_NAME_RES \in DOMAIN parseResults[i]
    THEN capwords(getPackageName(parseResults), ".")
    ELSE <<>>

\* getBaseName: string.capwords(package name, ".").replace(".", "_") of the
\* first item that has a package name, else ""
getBaseName(parseResults) ==
    IF \E i \in DOMAIN parseResults : PACKAGE_NAME_RES \in DOMAIN parseResults[i]
    THEN replace(capwords(parseResults[CHOOSE i \in DOMAIN parseResults :
            /\ PACKAGE_NAME_RES \in DOMAIN parseResults[i]
            /\ \A j \in 1..(i - 1) : PACKAGE_NAME_RES \notin DOMAIN parseResults[j]
         ].packageName, "."), ".", "_")
    ELSE <<>>

\* normalizeType looking for a message that ends with _messageType first
normalizeTypeEndFirst(messageType, parentType, messages) ==
    LET exact == {i \in DOMAIN messages :
                    messages[i].id = parentType \o <<".">> \o messageType}
        ends == {i \in DOMAIN messages :
                    endswith(messages[i].id, <<"_">> \o messageType)}
        first(S) == CHOOSE i \in S : \A j \in S : i <= j
    IN  IF ends # {} THEN messages[first(ends)].id
        ELSE IF exact # {} THEN messages[first(exact)].id
        ELSE messageType

\* normalizeType qualifying what it cannot resolve instead of returning it
normalizeTypeQualifying(messageType, parentType, messages) ==
    LET exact == {i \in DOMAIN messages :
                    messages[i].id = parentType \o <<".">> \o messageType}
        ends == {i \in DOMAIN messages :
                    endswith(messages[i].id, <<"_">> \o messageType)}
        first(S) == CHOOSE i \in S : \A j \in S : i <= j
    IN  IF exact # {} THEN messages[first(exact)].id
        ELSE IF ends # {} THEN messages[first(ends)].id
        ELSE parentType \o <<".">> \o messageType

\* normalizeType: the id of the first message equal to parentType.messageType,
\* else the id of the first message that ends with _messageType, else
\* messageType itself.  messages is a sequence of Message records.
normalizeType(messageType, parentType, messages) ==
    LET exact == {i \in DOMAIN messages :
                    messages[i].id = parentType \o <<".">> \o messageType}
        ends == {i \in DOMAIN messages :
                    endswith(messages[i].id, <<"_">> \o messageType)}
        first(S) == CHOOSE i \in S : \A j \in S : i <= j
    IN  IF exact # {} THEN messages[first(exact)].id
        ELSE IF ends # {} THEN messages[first(ends)].id
        ELSE messageType

\* the loop body of extractCmdContent for one field of a oneof body
oneOfEntry(oneOfItem, cmd, messages) ==
    IF /\ FIELD_ID_RES \in DOMAIN oneOfItem
       /\ FIELD_NB_RES \in DOMAIN oneOfItem
       /\ FIELD_TYPE_RES \in DOMAIN oneOfItem
    THEN LET fieldType == IF oneOfItem.fieldType.pr
                          THEN oneOfItem.fieldType.toks[1]
                          ELSE oneOfItem.fieldType.toks[1]
             msgType == normalizeType(fieldType, cmd.commandId, messages)
         IN  addOneOf(cmd, oneOfItem.fieldId, msgType, oneOfItem.fieldNumber)
    ELSE cmd

\* for oneOfItem in item[ONEOF_BODY_RES]: ...
RECURSIVE oneOfLoop(_, _, _)
oneOfLoop(body, cmd, messages) ==
    IF body = <<>> THEN cmd
    ELSE oneOfLoop(Tail(body), oneOfEntry(Head(body), cmd, messages), messages)

\* extractCmdContent taking the plain fields of resultItem as entries too
RECURSIVE extractCmdContentAndFields(_, _, _)
extractCmdContentAndFields(resultItem, cmd, messages) ==
    IF resultItem = <<>> THEN cmd
    ELSE extractCmdContentAndFields(
            Tail(resultItem),
            IF ONEOF_BODY_RES \in DOMAIN Head(resultItem)
            THEN oneOfLoop(Head(resultItem).oneOfBody, cmd, messages)
            ELSE oneOfEntry(Head(resultItem), cmd, messages),
            messages)

\* extractCmdContent: the fields of the oneof bodies placed in resultItem
RECURSIVE extractCmdContent(_, _, _)
extractCmdContent(resultItem, cmd, messages) ==
    IF resultItem = <<>> THEN cmd
    ELSE extractCmdContent(
            Tail(resultItem),
            IF ONEOF_BODY_RES \in DOMAIN Head(resultItem)
            THEN oneOfLoop(Head(resultItem).oneOfBody, cmd, messages)
            ELSE cmd,
            messages)

\* extractCmd keeping the first container it finds
RECURSIVE extractCmdLoopFirst(_, _, _, _, _, _)
extractCmdLoopFirst(items, cmd, name, packageName, baseName, messages) ==
    IF items = <<>> THEN cmd
    ELSE LET item == Head(items)
         IN  extractCmdLoopFirst(
                Tail(items),
                IF /\ MSG_ID_RES \in DOMAIN item
                   /\ MSG_BODY_RES \in DOMAIN item
                   /\ item.messageId = name
                   /\ cmd = None
                THEN extractCmdContent(
                        item.messageBody,
                        Command(baseName \o <<"_">> \o item.messageId,
                                packageName \o <<".">> \o item.messageId),
                        messages)
                ELSE cmd,
                name, packageName, baseName, messages)

\* extractCmd: the loop, with cmd the value of the local variable so far
RECURSIVE extractCmdLoop(_, _, _, _, _, _)
extractCmdLoop(items, cmd, name, packageName, baseName, messages) ==
    IF items = <<>> THEN cmd
    ELSE LET item == Head(items)
         IN  extractCmdLoop(
                Tail(items),
                IF /\ MSG_ID_RES \in DOMAIN item
                   /\ MSG_BODY_RES \in DOMAIN item
                   /\ item.messageId = name
                THEN extractCmdContent(
                        item.messageBody,
                        Command(baseName \o <<"_">> \o item.messageId,
                                packageName \o <<".">> \o item.messageId),
                        messages)
                ELSE cmd,
                name, packageName, baseName, messages)

extractCmd(name, parseResults, packageName, baseName, messages) ==
    extractCmdLoop(parseResults, None, name, packageName, baseName, messages)

(***************************************************************************)
(* Source texts: the inputs of parseFile.                                  *)
(***************************************************************************)
sFoo == <<"F","o","o">>
sBar == <<"B","a","r">>
sCommand == <<"C","o","m","m","a","n","d">>
sEvent == <<"E","v","e","n","t">>
sMyPkgFoo == <<"M","y","_","P","k","g","_","F","o","o">>
sBarFoo == <<"B","a","r",".","F","o","o">>
sMyPkg == <<"m","y",".","p","k","g">>
sfoo == <<"f","o","o">>
sbar == <<"b","a","r">>
sx == <<"x">>
ss == <<"s">>
sm == <<"m">>
sv == <<"v">>
sa == <<"a">>
sb == <<"b">>
sid == <<"i","d">>
sint32 == <<"i","n","t","3","2">>
sstring == <<"s","t","r","i","n","g">>
s0 == <<"0">>
s1 == <<"1">>
s2 == <<"2">>
s3 == <<"3">>
s4 == <<"4">>
sQuoted == <<"\"","x","\"">>

\* the spelling of each keyword
spelling ==
    [k \in kwds |->
        CASE k = "message" -> <<"m","e","s","s","a","g","e">>
          [] k = "required" -> <<"r","e","q","u","i","r","e","d">>
          [] k = "optional" -> <<"o","p","t","i","o","n","a","l">>
          [] k = "repeated" -> <<"r","e","p","e","a","t","e","d">>
          [] k = "enum" -> <<"e","n","u","m">>
          [] k = "extend" -> <<"e","x","t","e","n","d">>
          [] k = "package" -> <<"p","a","c","k","a","g","e">>
          [] k = "import" -> <<"i","m","p","o","r","t">>
          [] k = "syntax" -> <<"s","y","n","t","a","x">>
          [] k = "oneof" -> <<"o","n","e","o","f">>
          [] k = "map" -> <<"m","a","p">>]

T(k, s) == [k |-> k, s |-> s]
KW(k) == T(k, spelling[k])
P(c) == T(c, <<c>>)
ID(s) == T("ident", s)
junk == T("junk", <<"@">>)

\* the token sequences of the grammar's constructs
msg(name, body) == <<KW("message"), ID(name), P("{")>> \o body \o <<P("}")>>
extend(name, body) == <<KW("extend"), ID(name), P("{")>> \o body \o <<P("}")>>
enum(name) ==
    <<KW("enum"), ID(name), P("{"), ID(sa), P("="), T("int", s0), P(";"), P("}")>>
enumValue(name, number) == <<ID(name), P("="), T("int", number), P(";")>>
enumOf(name, values) == <<KW("enum"), ID(name), P("{")>> \o values \o <<P("}")>>
oneof(name, body) == <<KW("oneof"), ID(name), P("{")>> \o body \o <<P("}")>>
field(type, name, number) ==
    <<ID(type), ID(name), P("="), T("int", number), P(";")>>
mapField(key, value, name, number) ==
    <<KW("map"), P("<"), ID(key), P(","), ID(value), P(">"),
      ID(name), P("="), T("int", number), P(";")>>
package(name) == <<KW("package"), ID(name), P(";")>>
import == <<KW("import"), T("str", sQuoted), P(";")>>

\* the top-level statements a source text is made of
TopDefs == {
    package(sMyPkg),
    enum(sFoo),
    extend(sFoo, msg(sBar, <<>>)),
    msg(sFoo, field(sint32, sx, s1)),
    msg(sMyPkgFoo, <<>>),
    msg(sBarFoo, <<>>),
    msg(sCommand, oneof(sid, field(sFoo, sfoo, s1))),
    msg(sCommand,
        field(sint32, sx, s1)
        \o msg(sFoo, field(sint32, sx, s2)
                     \o msg(sBar, <<>>)
                     \o oneof(sv, field(sstring, ss, s1)))
        \o oneof(sa, field(sFoo, sfoo, s1) \o field(sstring, ss, s2))
        \o field(sint32, sx, s3)
        \o oneof(sb, mapField(sstring, sFoo, sm, s4))),
    msg(sEvent, oneof(sid, field(sFoo, sfoo, s1) \o field(sBarFoo, sbar, s2))),
    msg(sEvent,
        oneof(sa, field(sstring, ss, s2))
        \o enumOf(sa, enumValue(resultsNames.messageId, s1)
                      \o enumValue(resultsNames.messageBody, s2)
                      \o enumValue(resultsNames.fieldId, s3)
                      \o enumValue(resultsNames.fieldNumber, s4)
                      \o enumValue(resultsNames.oneOfBody, s1))
        \o enumOf(sb, enumValue(resultsNames.messageId, s1)
                      \o enumValue(resultsNames.messageBody, s2)
                      \o enumValue(resultsNames.fieldId, s3)
                      \o enumValue(resultsNames.fieldNumber, s0))),
    enumOf(sEvent, enumValue(resultsNames.packageName, s0)
                   \o enumValue(resultsNames.messageId, s1)
                   \o enumValue(resultsNames.messageBody, s2)),
    msg(sBar,
        msg(sFoo, <<>>)
        \o msg(sCommand, oneof(sid, field(sFoo, sfoo, s1)))
        \o enum(sEvent)) }

\* the top-level statements of the source texts that are then damaged
DamagedDefs == {
    package(sMyPkg),
    import,
    enum(sFoo),
    msg(sFoo, field(sint32, sx, s1)),
    msg(sCommand, oneof(sid, field(sFoo, sfoo, s1))) }

\* the most top-level statements in a source text
MaxTop == 3
\* the most top-level statements in a source text that is then damaged
MaxDamagedTop == 2

RECURSIVE flatten(_)
flatten(seqs) == IF seqs = <<>> THEN <<>> ELSE Head(seqs) \o flatten(Tail(seqs))

\* one token of a text lost, or one unrecognised character typed into it
drop(ts, i) == SubSeq(ts, 1, i - 1) \o SubSeq(ts, i + 1, Len(ts))
insert(ts, i, t) == SubSeq(ts, 1, i - 1) \o <<t>> \o SubSeq(ts, i, Len(ts))
Damaged(ts) ==
    {ts} \cup {drop(ts, i) : i \in DOMAIN ts}
         \cup {insert(ts, i, junk) : i \in 1..(Len(ts) + 1)}

\* source is a text of up to MaxTop statements, or a damaged text
IsSource(text) ==
    \/ \E n \in 0..MaxTop : \E q \in [1..n -> TopDefs] : text = flatten(q)
    \/ \E n \in 0..MaxDamagedTop : \E q \in [1..n -> DamagedDefs] :
            text \in Damaged(flatten(q))

(***************************************************************************)
(* parseFile as a state machine.                                           *)
(*                                                                         *)
(* heap holds the Message objects in creation order; messages is the list  *)
(* being built, a sequence of heap indices; stack holds the activations of *)
(* _extractMessages, the running one last.                                 *)
(***************************************************************************)
VARIABLES pc, source, parseResults, packageName, baseName,
          heap, messages, stack, command, event, result

vars == <<pc, source, parseResults, packageName, baseName,
          heap, messages, stack, command, event, result>>

\* an activation of _extractMessages: resultItem, the loop index, the next
\* of the four ifs of the loop body to test, baseName, parentMessage (a heap
\* index, 0 for None), and message (the local variable, a heap index)
Frame(resultItem, base, parent) ==
    [items |-> resultItem, idx |-> 1, stage |-> 1, baseName |-> base,
     parent |-> parent, message |-> 0]

Init ==
    /\ IsSource(source)
    /\ pc = "start"
    /\ parseResults = <<>>
    /\ packageName = <<>>
    /\ baseName = <<>>
    /\ heap = <<>>
    /\ messages = <<>>
    /\ stack = <<>>
    /\ command = None
    /\ event = None
    /\ result = None

\* parser.parseFile(filepath, parseAll=False) returns
ParseOk ==
    /\ pc = "start"
    /\ parser(source, 1).st = "ok"
    /\ parseResults' = parser(source, 1).val
    /\ pc' = "parsed"
    /\ UNCHANGED <<source, packageName, baseName, heap, messages, stack,
                   command, event, result>>

\* parser.parseFile raises: parseFile ends without a return value
ParseError ==
    /\ pc = "start"
    /\ parser(source, 1).st = "fatal"
    /\ pc' = "error"
    /\ UNCHANGED <<source, parseResults, packageName, baseName, heap, messages,
                   stack, command, event, result>>

GetPackageName ==
    /\ pc = "parsed"
    /\ packageName' = getPackageName(parseResults)
    /\ pc' = "package"
    /\ UNCHANGED <<source, parseResults, baseName, heap, messages, stack,
                   command, event, result>>

GetBaseName ==
    /\ pc = "package"
    /\ baseName' = getBaseName(parseResults)
    /\ pc' = "base"
    /\ UNCHANGED <<source, parseResults, packageName, heap, messages, stack,
                   command, event, result>>

\* the conditions of the four ifs of the loop body of _extractMessages
applies(item, stage) ==
    CASE stage = 1 -> MSG_ID_RES \in DOMAIN item /\ MSG_BODY_RES \in DOMAIN item
      [] stage = 2 -> ENUM_ID_RES \in DOMAIN item
      [] stage = 3 -> ONEOF_BODY_RES \in DOMAIN item
      [] stage = 4 -> FIELD_ID_RES \in DOMAIN item /\ FIELD_NB_RES \in DOMAIN item

\* the running activation and the item of its loop
top == stack[Len(stack)]
running == pc = "extract" /\ stack # <<>> /\ top.idx <= Len(top.items)
item == top.items[top.idx]

\* the next if whose condition holds, 5 when none is left
curStage ==
    IF \E st \in top.stage..4 : applies(item, st)
    THEN CHOOSE st \in top.stage..4 :
            applies(item, st) /\ \A t \in top.stage..(st - 1) : ~applies(item, t)
    ELSE 5

\* the activation once the if numbered stage is done: at the next if, or at
\* the next item when no later condition holds
after(frame, stage) ==
    IF \E st \in (stage + 1)..4 : applies(frame.items[frame.idx], st)
    THEN [frame EXCEPT !.stage = stage + 1]
    ELSE [frame EXCEPT !.idx = frame.idx + 1, !.stage = 1]

\* qualified with the nesting forgotten: every id is built as a top-level id
qualifiedFlat(frame, name) == baseName \o <<"_">> \o name

\* messageId as qualified at lines 262-265 and 271-274
qualified(frame, name) ==
    IF frame.parent = 0 THEN frame.baseName \o <<"_">> \o name
    ELSE heap[frame.parent].id \o <<".">> \o name

setTop(frame) == [stack EXCEPT ![Len(stack)] = frame]

\* the list parseFile hands on: the Message objects of messages, in order
MessageList == [i \in DOMAIN messages |-> heap[messages[i]]]

\* extractMessages: messages = []; the call of _extractMessages
ExtractMessages ==
    /\ pc = "base"
    /\ messages' = <<>>
    /\ stack' = <<Frame(parseResults, baseName, 0)>>
    /\ pc' = "extract"
    /\ UNCHANGED <<source, parseResults, packageName, baseName, heap,
                   command, event, result>>

\* ExtractMessage handing the body walk the enclosing parentMessage instead
\* of the new Message
ExtractMessageOuterParent ==
    /\ running
    /\ curStage = 1
    /\ LET id == qualified(top, item.messageId)
           new == Len(heap) + 1
       IN  /\ heap' = Append(heap, Message(id))
           /\ stack' = Append(setTop([top EXCEPT !.stage = 1, !.message = new]),
                              Frame(item.messageBody, id, top.parent))
    /\ UNCHANGED <<pc, source, parseResults, packageName, baseName, messages,
                   command, event, result>>

\* ExtractMessage appending the Message before its body is walked
ExtractMessagePreOrder ==
    /\ running
    /\ curStage = 1
    /\ LET id == qualified(top, item.messageId)
           new == Len(heap) + 1
       IN  /\ heap' = Append(heap, Message(id))
           /\ messages' = Append(messages, new)
           /\ stack' = Append(setTop([top EXCEPT !.stage = 2, !.message = new]),
                              Frame(item.messageBody, id, new))
    /\ UNCHANGED <<pc, source, parseResults, packageName, baseName,
                   command, event, result>>

\* lines 260-267: a message definition; its Message is created and the body
\* is walked before the Message is appended
ExtractMessage ==
    /\ running
    /\ curStage = 1
    /\ LET id == qualified(top, item.messageId)
           new == Len(heap) + 1
       IN  /\ heap' = Append(heap, Message(id))
           /\ stack' = Append(setTop([top EXCEPT !.stage = 1, !.message = new]),
                              Frame(item.messageBody, id, new))
    /\ UNCHANGED <<pc, source, parseResults, packageName, baseName, messages,
                   command, event, result>>

\* lines 269-276: an enum definition
ExtractEnum ==
    /\ running
    /\ curStage = 2
    /\ LET new == Len(heap) + 1
       IN  /\ heap' = Append(heap, Message(qualified(top, item.enumId)))
           /\ messages' = Append(messages, new)
           /\ stack' = setTop(after([top EXCEPT !.message = new], 2))
    /\ UNCHANGED <<pc, source, parseResults, packageName, baseName,
                   command, event, result>>

\* lines 277-278: a oneof; its body is walked with the same parentMessage
ExtractOneOf ==
    /\ running
    /\ curStage = 3
    /\ stack' = Append(setTop([top EXCEPT !.stage = 3]),
                       Frame(item.oneOfBody, top.baseName, top.parent))
    /\ UNCHANGED <<pc, source, parseResults, packageName, baseName, heap,
                   messages, command, event, result>>

\* lines 279-281: a field definition
ExtractField ==
    /\ running
    /\ curStage = 4
    /\ heap' = IF top.parent # 0
               THEN [heap EXCEPT ![top.parent] =
                        addField(heap[top.parent], item.fieldId, item.fieldNumber)]
               ELSE heap
    /\ stack' = setTop(after(top, 4))
    /\ UNCHANGED <<pc, source, parseResults, packageName, baseName, messages,
                   command, event, result>>

\* an item none of the four conditions holds for
ExtractSkip ==
    /\ running
    /\ curStage = 5
    /\ stack' = setTop([top EXCEPT !.idx = top.idx + 1, !.stage = 1])
    /\ UNCHANGED <<pc, source, parseResults, packageName, baseName, heap,
                   messages, command, event, result>>

\* the loop of an activation ends: back in the caller, at line 268
\* (messages.append(message)) or after line 278; extractMessages returns
\* when it was the outermost one
ExtractReturn ==
    /\ pc = "extract"
    /\ stack # <<>>
    /\ top.idx > Len(top.items)
    /\ IF Len(stack) = 1
       THEN /\ stack' = <<>>
            /\ pc' = "extracted"
            /\ UNCHANGED messages
       ELSE LET caller == stack[Len(stack) - 1]
                rest == SubSeq(stack, 1, Len(stack) - 2)
            IN  /\ stack' = Append(rest, after(caller, caller.stage))
                /\ messages' = IF caller.stage = 1
                               THEN Append(messages, caller.message)
                               ELSE messages
                /\ UNCHANGED pc
    /\ UNCHANGED <<source, parseResults, packageName, baseName, heap,
                   command, event, result>>

\* the messages up to the last one whose id is id
upTo(list, id) ==
    SubSeq(list, 1,
           IF \E i \in DOMAIN list : list[i].id = id
           THEN CHOOSE i \in DOMAIN list :
                   list[i].id = id /\ \A j \in DOMAIN list : list[j].id = id => j <= i
           ELSE 0)

\* ExtractCommand as if the container were built when its message is
\* appended: with the messages extracted by then
ExtractCommandInline ==
    /\ pc = "extracted"
    /\ command' = extractCmd(sCommand, parseResults, packageName, baseName,
                             upTo(MessageList, baseName \o <<"_">> \o sCommand))
    /\ pc' = "command"
    /\ UNCHANGED <<source, parseResults, packageName, baseName, heap, messages,
                   stack, event, result>>

\* parseFile line 226
ExtractCommand ==
    /\ pc = "extracted"
    /\ command' = extractCmd(sCommand, parseResults, packageName, baseName, MessageList)
    /\ pc' = "command"
    /\ UNCHANGED <<source, parseResults, packageName, baseName, heap, messages,
                   stack, event, result>>

\* parseFile line 227
ExtractEvent ==
    /\ pc = "command"
    /\ event' = extractCmd(sEvent, parseResults, packageName, baseName, MessageList)
    /\ pc' = "event"
    /\ UNCHANGED <<source, parseResults, packageName, baseName, heap, messages,
                   stack, command, result>>

\* parseFile line 229
Return ==
    /\ pc = "event"
    /\ result' = [messages |-> MessageList, command |-> command, event |-> event]
    /\ pc' = "done"
    /\ UNCHANGED <<source, parseResults, packageName, baseName, heap, messages,
                   stack, command, event>>

Next ==
    \/ ParseOk
    \/ ParseError
    \/ GetPackageName
    \/ GetBaseName
    \/ ExtractMessages
    \/ ExtractMessage
    \/ ExtractEnum
    \/ ExtractOneOf
    \/ ExtractField
    \/ ExtractSkip
    \/ ExtractReturn
    \/ ExtractCommand
    \/ ExtractEvent
    \/ Return

Spec == Init /\ [][Next]_vars

(***************************************************************************)
(* What a schema declares, read off the parse results.                     *)
(***************************************************************************)
\* The item of an enum always holds enumId, and only the item of an enum
\* holds keys that its own rule does not name; the name an enum is declared
\* under is its second token.
isEnum(it) == ENUM_ID_RES \in DOMAIN it
isMessage(it) ==
    MSG_ID_RES \in DOMAIN it /\ MSG_BODY_RES \in DOMAIN it /\ ~isEnum(it)
isDefn(it) == isMessage(it) \/ isEnum(it)
declaredName(it) == IF isMessage(it) THEN it.messageId ELSE it.unnamed[2]

\* the names of the message and enum definitions of a body and of the
\* message bodies inside it
RECURSIVE declaredNames(_)
declaredNames(items) ==
    UNION {IF isMessage(items[i])
           THEN {items[i].messageId} \cup declaredNames(items[i].messageBody)
           ELSE IF isEnum(items[i]) THEN {declaredName(items[i])} ELSE {}
           : i \in DOMAIN items}

\* no two definitions placed in the same body have the same name
RECURSIVE siblingsDistinct(_)
siblingsDistinct(items) ==
    /\ \A i, j \in DOMAIN items :
          i # j /\ isDefn(items[i]) /\ isDefn(items[j])
          => declaredName(items[i]) # declaredName(items[j])
    /\ \A i \in DOMAIN items :
          isMessage(items[i]) => siblingsDistinct(items[i].messageBody)

hasChar(s, c) == \E i \in DOMAIN s : s[i] = c

\* the ids of the returned list, in order
Ids == [i \in DOMAIN result.messages |-> result.messages[i].id]

(***************************************************************************)
(* C1                                                                      *)
(***************************************************************************)
\* C1 as claimed: for every schema that parses, no two entries of the list
\* extractMessages returns carry the same id.
C1_IdsDistinct ==
    pc = "done" => \A i, j \in DOMAIN Ids : i # j => Ids[i] # Ids[j]

C1_Precondition ==
    /\ siblingsDistinct(parseResults)
    /\ \A n \in declaredNames(parseResults) : ~hasChar(n, ".")

\* C1 for the schemas that parse in which no two message or enum
\* definitions placed in the same body (or both at top level) have the same
\* name and no declared name contains a '.': no two entries of the list
\* extractMessages returns carry the same id.
C1_IdsDistinctForDistinctNames ==
    pc = "done" /\ C1_Precondition
    => \A i, j \in DOMAIN Ids : i # j => Ids[i] # Ids[j]

\* no enum has a value named as a results name
plainEnums ==
    \A i \in DOMAIN source : \A key \in DOMAIN resultsNames :
        source[i].s # resultsNames[key]

\* the same, for the schemas whose enums are plain
C1_IdsDistinctPlainEnums ==
    pc = "done" /\ C1_Precondition /\ plainEnums
    => \A i, j \in DOMAIN Ids : i # j => Ids[i] # Ids[j]

\* a top-level Foo and a Foo nested in another message are both extracted
C1_Witness ==
    /\ pc = "done"
    /\ C1_Precondition
    /\ \E i, j \in DOMAIN Ids :
          /\ endswith(Ids[i], <<"_">> \o sFoo)
          /\ endswith(Ids[j], <<".">> \o sFoo)

(***************************************************************************)
(* C3                                                                      *)
(***************************************************************************)
\* the ids extractCmd gives its containers, and raw type tokens
ContainerIds == {baseName \o <<"_">> \o sCommand, baseName \o <<"_">> \o sEvent}
RawTypes == {sFoo, sBar, sBarFoo, sMyPkgFoo, sCommand, sEvent, sstring, sint32}

C3_IdempotentOn(M) ==
    \A c \in ContainerIds :
        /\ \A i \in DOMAIN M : normalizeType(M[i].id, c, M) = M[i].id
        /\ \A r \in RawTypes \cup {M[i].id : i \in DOMAIN M} :
              normalizeType(normalizeType(r, c, M), c, M) = normalizeType(r, c, M)

\* C3 as claimed: for every extracted message list, normalizeType returns
\* the id of a message of the list unchanged, and resolving a resolved type
\* again changes nothing.
C3_Idempotent == pc = "done" => C3_IdempotentOn(result.messages)

C3_Precondition == \A n \in declaredNames(parseResults) : ~hasChar(n, "_")

\* C3 as amended: the same, for the message lists extracted from schemas
\* none of whose declared message and enum names contains an underscore.
C3_IdempotentWithoutUnderscores ==
    pc = "done" /\ C3_Precondition => C3_IdempotentOn(result.messages)

\* some raw type is resolved to a different, qualified id
C3_Witness ==
    /\ pc = "done"
    /\ C3_Precondition
    /\ \E c \in ContainerIds, r \in RawTypes :
          normalizeType(r, c, result.messages) # r

(***************************************************************************)
(* C2                                                                      *)
(***************************************************************************)
\* package my.pkg; message Command { oneof id { Foo foo = 1; } }
\* message Foo { int32 x = 1; }
C2_Source ==
    package(sMyPkg)
    \o msg(sCommand, oneof(sid, field(sFoo, sfoo, s1)))
    \o msg(sFoo, field(sint32, sx, s1))

sMy_Pkg_Command == <<"M","y","_","P","k","g","_","C","o","m","m","a","n","d">>
sMy_Pkg_Foo == <<"M","y","_","P","k","g","_","F","o","o">>
smy_pkg_Command == <<"m","y",".","p","k","g",".","C","o","m","m","a","n","d">>

C2_Command ==
    [commandId |-> sMy_Pkg_Command, serviceId |-> smy_pkg_Command,
     oneOf |-> <<[id |-> sfoo, type |-> sMy_Pkg_Foo, number |-> s1]>>]

\* C2 as claimed: for this schema parseFile returns the messages
\* [Message("My_Pkg_Command"), Message("My_Pkg_Foo", fields={"x":"1"})], the
\* Command message without fields, the command above and no event.
C2_RoundTripAsWritten ==
    pc = "done" /\ source = C2_Source
    => result = [messages |-> <<[id |-> sMy_Pkg_Command, fields |-> <<>>],
                                [id |-> sMy_Pkg_Foo, fields |-> <<<<sx, s1>>>>]>>,
                 command |-> C2_Command, event |-> None]

\* C2 as amended: for this schema parseFile returns the messages
\* [Message("My_Pkg_Command", fields={"foo":"1"}),
\*  Message("My_Pkg_Foo", fields={"x":"1"})], the command above and no event.
C2_RoundTrip ==
    pc = "done" /\ source = C2_Source
    => result = [messages |-> <<[id |-> sMy_Pkg_Command, fields |-> <<<<sfoo, s1>>>>],
                                [id |-> sMy_Pkg_Foo, fields |-> <<<<sx, s1>>>>]>>,
                 command |-> C2_Command, event |-> None]

C2_Witness == pc = "done" /\ source = C2_Source

(***************************************************************************)
(* C4                                                                      *)
(***************************************************************************)
isOneOf(it) == ONEOF_BODY_RES \in DOMAIN it /\ ~isEnum(it)
isField(it) ==
    FIELD_ID_RES \in DOMAIN it /\ FIELD_NB_RES \in DOMAIN it /\ ~isEnum(it)

\* the <<name, number>> of the fields declared in the oneof bodies placed
\* in body, in declaration order
oneOfFields(body) ==
    flatten([i \in DOMAIN body |->
                IF isOneOf(body[i])
                THEN [k \in DOMAIN body[i].oneOfBody |->
                        <<body[i].oneOfBody[k].fieldId,
                          body[i].oneOfBody[k].fieldNumber>>]
                ELSE <<>>])

\* the top-level messages named name; the last of them
named(name) ==
    {i \in DOMAIN parseResults :
        isMessage(parseResults[i]) /\ parseResults[i].messageId = name}
lastNamed(name) == CHOOSE i \in named(name) : \A j \in named(name) : j <= i

entries(cmd) == [k \in DOMAIN cmd.oneOf |-> <<cmd.oneOf[k].id, cmd.oneOf[k].number>>]

C4_Follows(name, cmd) ==
    cmd # None
    => /\ named(name) # {}
       /\ entries(cmd) = oneOfFields(parseResults[lastNamed(name)].messageBody)

\* C4: the oneOf of a container has one entry for each field definition of
\* the oneof bodies placed directly in the container's body, in declaration
\* order; plain fields of the container and oneofs of messages nested in it
\* give no entry.
C4_OneOfFollowsDeclaration ==
    pc = "done"
    => /\ C4_Follows(sCommand, result.command)
       /\ C4_Follows(sEvent, result.event)

\* a container with a plain field, two oneofs of three fields in all, and a
\* nested message that has a oneof of its own
C4_Witness ==
    /\ pc = "done"
    /\ result.command # None
    /\ Len(result.command.oneOf) = 3
    /\ LET body == parseResults[lastNamed(sCommand)].messageBody
       IN  /\ \E i \in DOMAIN body : isField(body[i])
           /\ \E i, j \in DOMAIN body : i # j /\ isOneOf(body[i]) /\ isOneOf(body[j])
           /\ \E i \in DOMAIN body :
                 /\ isMessage(body[i])
                 /\ \E k \in DOMAIN body[i].messageBody : isOneOf(body[i].messageBody[k])

(***************************************************************************)
(* C5                                                                      *)
(***************************************************************************)
\* the bodies of the definitions extraction visits, a definition after the
\* ones nested in it (an enum has no body of fields)
RECURSIVE bodiesOf(_)
bodiesOf(items) ==
    flatten([i \in DOMAIN items |->
                IF isMessage(items[i])
                THEN Append(bodiesOf(items[i].messageBody), items[i].messageBody)
                ELSE IF isEnum(items[i]) THEN <<<<>>>> ELSE <<>>])

\* the names of the fields declared in body itself or in a oneof placed in it
directFieldNames(body) ==
    {body[i].fieldId : i \in {k \in DOMAIN body : isField(body[k])}}
    \cup UNION {{body[i].oneOfBody[k].fieldId : k \in DOMAIN body[i].oneOfBody}
                : i \in {k \in DOMAIN body : isOneOf(body[k])}}

keys(message) == {message.fields[k][1] : k \in DOMAIN message.fields}

\* the definitions of items in the order of bodiesOf, each with the id that
\* qualifies its declared name
RECURSIVE declarations(_, _, _)
declarations(items, outer, atTop) ==
    flatten([i \in DOMAIN items |->
        LET id == outer \o (IF atTop THEN <<"_">> ELSE <<".">>)
                        \o declaredName(items[i])
        IN  IF isMessage(items[i])
            THEN Append(declarations(items[i].messageBody, id, FALSE),
                        [id |-> id, body |-> items[i].messageBody])
            ELSE IF isEnum(items[i]) THEN <<[id |-> id, body |-> <<>>]>> ELSE <<>>])

\* C5: the keys of the fields of an extracted Message are exactly the names
\* of the fields declared in its own body and in the oneof bodies placed
\* directly in it: they are those of a definition that has the id of the
\* Message.
C5_FieldsAreDirect ==
    pc = "done"
    => LET decls == declarations(parseResults, baseName, TRUE)
       IN  \A k \in DOMAIN result.messages :
              (\E d \in DOMAIN decls : decls[d].id = result.messages[k].id)
              => \E d \in DOMAIN decls :
                    /\ decls[d].id = result.messages[k].id
                    /\ keys(result.messages[k]) = directFieldNames(decls[d].body)

\* the same, for the schemas in which no enum has a value named as a results
\* name
C5_FieldsAreDirectPlainEnums ==
    pc = "done" /\ plainEnums
    => /\ Len(result.messages) = Len(bodiesOf(parseResults))
       /\ \A k \in DOMAIN result.messages :
             keys(result.messages[k]) = directFieldNames(bodiesOf(parseResults)[k])

\* a message with a field, a oneof field and a nested message with a field
C5_Witness ==
    /\ pc = "done"
    /\ \E i \in DOMAIN parseResults :
          /\ isMessage(parseResults[i])
          /\ LET body == parseResults[i].messageBody
             IN  /\ \E k \in DOMAIN body : isField(body[k])
                 /\ \E k \in DOMAIN body : isOneOf(body[k]) /\ body[k].oneOfBody # <<>>
                 /\ \E k \in DOMAIN body :
                       /\ isMessage(body[k])
                       /\ \E n \in DOMAIN body[k].messageBody :
                             isField(body[k].messageBody[n])

(***************************************************************************)
(* C6                                                                      *)
(***************************************************************************)
\* the container built from the top-level message at position i alone
builtFrom(i) ==
    extractCmdContent(parseResults[i].messageBody,
                      Command(baseName \o <<"_">> \o parseResults[i].messageId,
                              packageName \o <<".">> \o parseResults[i].messageId),
                      result.messages)

C6_LastOf(name, cmd) == Cardinality(named(name)) >= 2 => cmd = builtFrom(lastNamed(name))

\* C6: with two or more top-level messages named Command (Event), the
\* returned command (event) is the one built from the last of them alone.
C6_LastContainerWins ==
    pc = "done"
    => /\ C6_LastOf(sCommand, result.command)
       /\ C6_LastOf(sEvent, result.event)

\* two Command messages, and two Event messages, whose oneof fields differ
C6_Differ(name) ==
    \E i, j \in named(name) :
        oneOfFields(parseResults[i].messageBody) # oneOfFields(parseResults[j].messageBody)
C6_Witness == pc = "done" /\ C6_Differ(sCommand)
C6_WitnessEvent == pc = "done" /\ C6_Differ(sEvent)

(***************************************************************************)
(* C7                                                                      *)
(***************************************************************************)
\* the whole text is a sequence of top-level statements
wellFormed(ts) == parser(ts, 1).st = "ok" /\ parser(ts, 1).pos = Len(ts) + 1

\* the braces open before position i
depthAt(ts, i) ==
    Cardinality({k \in 1..(i - 1) : ts[k].k = "{"})
    - Cardinality({k \in 1..(i - 1) : ts[k].k = "}"})

\* a well-formed text that lacks one closing brace
unterminated(ts) ==
    /\ depthAt(ts, Len(ts) + 1) = 1
    /\ \E i \in 1..(Len(ts) + 1) : wellFormed(insert(ts, i, P("}")))

\* a well-formed text with an unrecognised token inside a body
junkInside(ts) ==
    \E i \in DOMAIN ts :
        ts[i] = junk /\ depthAt(ts, i) > 0 /\ wellFormed(drop(ts, i))

\* a well-formed text with an unrecognised token where its statement i
\* would begin
junkBetween(ts, i) ==
    /\ i \in DOMAIN ts
    /\ ts[i] = junk
    /\ wellFormed(SubSeq(ts, 1, i - 1))
    /\ wellFormed(SubSeq(ts, i + 1, Len(ts)))

NothingBuilt ==
    /\ parseResults = <<>> /\ heap = <<>> /\ messages = <<>> /\ stack = <<>>
    /\ command = None /\ event = None /\ result = None

\* C7 as claimed: when the source text has a syntactic inconsistency,
\* parseFile raises: it gets past the parser for no such text, and nothing
\* is extracted or returned.
C7_AnyInconsistencyRaises ==
    ~wellFormed(source) => pc \in {"start", "error"} /\ NothingBuilt

\* C7 as amended: when the inconsistency is inside a top-level statement
\* that has begun (an unterminated body, an unrecognised token inside a
\* body), parseFile raises, and nothing is extracted or returned, extraction
\* starting only once the parser has returned; an unrecognised token where a
\* top-level statement would begin is no error, and the statements before it
\* are the parse results.
C7_InconsistencyInsideRaises ==
    /\ pc \in {"start", "error"} => NothingBuilt
    /\ pc = "parsed" => ~unterminated(source) /\ ~junkInside(source)
    /\ pc = "parsed" =>
          \A i \in DOMAIN source :
              junkBetween(source, i)
              => parseResults = parser(SubSeq(source, 1, i - 1), 1).val

\* message Foo { int32 x = 1;   raises
C7_Witness ==
    /\ pc = "error"
    /\ source = <<KW("message"), ID(sFoo), P("{")>> \o field(sint32, sx, s1)

\* an unrecognised token after a first statement: the model of that statement
C7_WitnessTolerated ==
    /\ pc = "done"
    /\ \E i \in DOMAIN source : i > 1 /\ junkBetween(source, i)
    /\ result.messages # <<>>

(***************************************************************************)
(* C8                                                                      *)
(***************************************************************************)
\* message.fields[id]
get(message, id) ==
    message.fields[CHOOSE k \in DOMAIN message.fields : message.fields[k][1] = id][2]

\* extractMessages has returned
extractionOver == pc \in {"extracted", "command", "event", "done"}

\* a step keeps every Message, and its id
IdsKept ==
    \A i \in DOMAIN heap : i \in DOMAIN heap' /\ heap'[i].id = heap[i].id

\* a step removes no key of the fields of a Message
KeysKept ==
    \A i \in DOMAIN heap : i \in DOMAIN heap' => keys(heap[i]) \subseteq keys(heap'[i])

\* a step after extractMessages has returned leaves the message list as it is
ListKept == extractionOver => MessageList' = MessageList

\* the step is the addField of a field named id of the Message at i
declares(i, id) ==
    /\ running
    /\ curStage = 4
    /\ top.parent = i
    /\ item.fieldId = id

\* C8 as claimed: the id of a Message never changes, and during extraction
\* its fields only gain entries, none being removed or changed; container
\* extraction and type resolution leave the message list unchanged.
C8_FieldsOnlyGain ==
    [][/\ IdsKept
       /\ KeysKept
       /\ \A i \in DOMAIN heap : \A id \in keys(heap[i]) :
             i \in DOMAIN heap' /\ id \in keys(heap'[i])
             => get(heap'[i], id) = get(heap[i], id)
       /\ ListKept]_vars

\* C8 as amended: the id of a Message never changes, and during extraction
\* no entry of its fields is removed, and the number of an entry changes only
\* when addField is called again for the same message with the same name (an
\* item of its body, or of a oneof in it, that holds that name as fieldId),
\* to the number of that item; container extraction and type resolution
\* leave the message list unchanged.
C8_FieldsKeepTheirKeys ==
    [][/\ IdsKept
       /\ KeysKept
       /\ \A i \in DOMAIN heap : \A id \in keys(heap[i]) :
             i \in DOMAIN heap' /\ id \in keys(heap'[i])
             /\ get(heap'[i], id) # get(heap[i], id)
             => declares(i, id) /\ get(heap'[i], id) = item.fieldNumber
       /\ ListKept]_vars

\* message Command { int32 x = 1; ... int32 x = 3; ... } has been extracted:
\* x is held once, with the number of the later declaration
C8_Witness ==
    /\ pc = "done"
    /\ \E k \in DOMAIN result.messages :
          /\ Len(result.messages[k].fields) > 1
          /\ result.messages[k].fields[1] = <<sx, s3>>
    /\ command # None

(***************************************************************************)
(* C9                                                                      *)
(***************************************************************************)
\* M holds a message whose id is id
known(M, id) == \E i \in DOMAIN M : M[i].id = id

\* the message at i is the first of M whose id ends with _raw
firstEnd(M, i, raw) ==
    /\ endswith(M[i].id, <<"_">> \o raw)
    /\ \A j \in 1..(i - 1) : ~endswith(M[j].id, <<"_">> \o raw)

\* type is what the rules give for raw in the container c, in their order
resolved(raw, c, M, type) ==
    IF known(M, c \o <<".">> \o raw) THEN type = c \o <<".">> \o raw
    ELSE IF \E i \in DOMAIN M : firstEnd(M, i, raw)
         THEN \E i \in DOMAIN M : firstEnd(M, i, raw) /\ type = M[i].id
         ELSE type = raw

\* the type tokens of the fields declared in the oneof bodies placed in
\* body, in declaration order
oneOfTypes(body) ==
    flatten([i \in DOMAIN body |->
                IF isOneOf(body[i])
                THEN [k \in DOMAIN body[i].oneOfBody |->
                        body[i].oneOfBody[k].fieldType.toks[1]]
                ELSE <<>>])

C9_Resolved(name, cmd, M) ==
    cmd # None
    => LET raws == oneOfTypes(parseResults[lastNamed(name)].messageBody)
       IN  /\ Len(raws) = Len(cmd.oneOf)
           /\ \A k \in DOMAIN cmd.oneOf :
                 resolved(raws[k], cmd.commandId, M, cmd.oneOf[k].type)

\* C9: normalizeType returns containerId.raw when a message has that id, even
\* when an earlier message ends with _raw; else the id of the first message
\* that ends with _raw; else raw itself.  So are the types of the entries of
\* the command and of the event that parseFile returns.
C9_RulesInOrder ==
    pc = "done"
    => /\ \A c \in ContainerIds : \A raw \in RawTypes :
             resolved(raw, c, result.messages,
                      normalizeType(raw, c, result.messages))
       /\ C9_Resolved(sCommand, result.command, result.messages)
       /\ C9_Resolved(sEvent, result.event, result.messages)

\* message Foo before a Command that nests a Foo of its own and has the
\* oneof fields Foo foo and string s: foo has the type of the nested Foo,
\* s the type string, and for an Event the same Foo is the first message
\* that ends with _Foo
C9_Witness ==
    /\ pc = "done"
    /\ result.command # None
    /\ LET M == result.messages
           c == result.command.commandId
       IN  /\ \E k \in DOMAIN result.command.oneOf : \E i, j \in DOMAIN M :
                 /\ i < j
                 /\ endswith(M[i].id, <<"_">> \o sFoo)
                 /\ M[j].id = c \o <<".">> \o sFoo
                 /\ result.command.oneOf[k].type = M[j].id
           /\ \E k \in DOMAIN result.command.oneOf :
                 result.command.oneOf[k].type = sstring
           /\ \E i, j \in DOMAIN M :
                 /\ i < j
                 /\ firstEnd(M, i, sFoo)
                 /\ endswith(M[j].id, <<"_">> \o sFoo)
                 /\ normalizeType(sFoo, baseName \o <<"_">> \o sEvent, M) = M[i].id

(***************************************************************************)
(* C10                                                                     *)
(***************************************************************************)
\* the declared names of the definitions extraction visits, in the order of
\* the message list: a message after the definitions nested in it
RECURSIVE namesOf(_)
namesOf(items) ==
    flatten([i \in DOMAIN items |->
                IF isMessage(items[i])
                THEN Append(namesOf(items[i].messageBody), items[i].messageId)
                ELSE IF isEnum(items[i]) THEN <<declaredName(items[i])>> ELSE <<>>])

C10_Resolves(name, cmd, M) ==
    cmd # None
    => LET raws == oneOfTypes(parseResults[lastNamed(name)].messageBody)
           names == namesOf(parseResults)
       IN  \A k \in DOMAIN cmd.oneOf :
              /\ \E i \in DOMAIN names : names[i] = raws[k]
              /\ ~known(M, cmd.commandId \o <<".">> \o raws[k])
              => \E i \in DOMAIN M :
                    names[i] = raws[k] /\ cmd.oneOf[k].type = M[i].id

\* C10: when the type token of a oneof field of a container is the declared
\* name of an extracted message or enum that is not nested directly in the
\* container, the type of its entry is the id of a message declared under
\* that name: not the token itself, nor the id of a message declared under
\* another name.
C10_SimpleNameResolves ==
    pc = "done"
    => /\ Len(namesOf(parseResults)) = Len(result.messages)
       /\ C10_Resolves(sCommand, result.command, result.messages)
       /\ C10_Resolves(sEvent, result.event, result.messages)

\* the same, for a message declared at top level under a name that no other
\* declared name ends with after an underscore
C10_RootLevelResolves ==
    pc = "done" /\ result.command # None
    /\ (\A n \in declaredNames(parseResults) :
            n # sFoo => ~endswith(n, <<"_">> \o sFoo))
    /\ (\E i \in DOMAIN parseResults :
            isMessage(parseResults[i]) /\ parseResults[i].messageId = sFoo)
    => LET raws == oneOfTypes(parseResults[lastNamed(sCommand)].messageBody)
       IN  \A k \in DOMAIN result.command.oneOf :
              /\ raws[k] = sFoo
              /\ ~known(result.messages, result.command.commandId \o <<".">> \o sFoo)
              => result.command.oneOf[k].type = baseName \o <<"_">> \o sFoo

(***************************************************************************)
(* C11                                                                     *)
(***************************************************************************)
\* the keywords a top-level statement begins with
leading == {"message", "extend", "enum", "import", "syntax", "package"}

\* the text before position i is a sequence of top-level statements, and the
\* token at i begins none
trailingAt(ts, i) ==
    /\ i \in DOMAIN ts
    /\ ts[i].k \notin leading
    /\ (i = 1 \/ ts[i - 1].k \in {";", "}"})
    /\ depthAt(ts, i) = 0
    /\ wellFormed(SubSeq(ts, 1, i - 1))

\* the statements before position i, parsed alone
before(ts, i) == parser(SubSeq(ts, 1, i - 1), 1).val

\* C11: text that follows the last top-level statement and begins no
\* top-level statement is tolerated: parseFile raises no error, the parse
\* results are those of the statements before it, and so is the model
\* returned: one message per definition in them, a command and an event when
\* they declare one.
C11_TrailingTolerated ==
    pc \in {"error", "parsed", "done"}
    => \A i \in DOMAIN source :
        trailingAt(source, i)
        => /\ pc # "error"
           /\ parseResults = before(source, i)
           /\ pc = "done"
              => /\ Len(result.messages) = Len(namesOf(before(source, i)))
                 /\ result.command # None
                    <=> \E k \in DOMAIN before(source, i) :
                           /\ isMessage(before(source, i)[k])
                           /\ before(source, i)[k].messageId = sCommand
                 /\ result.event # None
                    <=> \E k \in DOMAIN before(source, i) :
                           /\ isMessage(before(source, i)[k])
                           /\ before(source, i)[k].messageId = sEvent

\* a message, an unrecognised token, then a statement that alone would be
\* recognised: the model has the message and nothing of what follows it
C11_Witness ==
    /\ pc = "done"
    /\ \E i \in DOMAIN source :
          /\ trailingAt(source, i)
          /\ i > 1
          /\ i < Len(source)
          /\ source[i + 1].k \in leading
          /\ wellFormed(SubSeq(source, i + 1, Len(source)))
          /\ Len(result.messages) = 1
          /\ Len(namesOf(parser(SubSeq(source, i + 1, Len(source)), 1).val)) > 0

(***************************************************************************)
(* C12                                                                     *)
(***************************************************************************)
\* the ids of the definitions of items in post-order: for each definition in
\* declaration order, a message after the definitions of its body.  outer is
\* the id of the enclosing message, or baseName with top set at top level.
RECURSIVE postOrder(_, _, _)
postOrder(items, outer, atTop) ==
    flatten([i \in DOMAIN items |->
        LET id == outer \o (IF atTop THEN <<"_">> ELSE <<".">>)
                        \o declaredName(items[i])
        IN  IF isMessage(items[i])
            THEN Append(postOrder(items[i].messageBody, id, FALSE), id)
            ELSE IF isEnum(items[i]) THEN <<id>> ELSE <<>>])

\* C12: the message list is in post-order: the definitions nested in a
\* message, at any depth, come before it, sibling definitions are in
\* declaration order, and each message or enum definition reachable through
\* message bodies has exactly one entry.
C12_PostOrder ==
    /\ pc = "done" => Ids = postOrder(parseResults, baseName, TRUE)
    /\ pc = "extracted"
       => [i \in DOMAIN MessageList |-> MessageList[i].id]
          = postOrder(parseResults, baseName, TRUE)

\* the same, for the schemas whose enums are plain
C12_PostOrderPlainEnums ==
    pc = "done" /\ plainEnums => Ids = postOrder(parseResults, baseName, TRUE)

\* a message that nests, after a field, a message that itself nests a
\* message, and a top-level definition before it: five entries or more, the
\* innermost message before the one around it, that one before the outermost
C12_Witness ==
    /\ pc = "done"
    /\ \E i, j, k \in DOMAIN Ids :
          /\ 1 < i /\ i < j /\ j < k
          /\ Ids[j] = Ids[k] \o <<".">> \o sFoo
          /\ Ids[i] = Ids[j] \o <<".">> \o sBar
    /\ \E i \in DOMAIN parseResults :
          isMessage(parseResults[i]) /\ parseResults[i].messageBody # <<>>
          /\ ~isDefn(parseResults[i].messageBody[1])

(***************************************************************************)
(* C13                                                                     *)
(***************************************************************************)
\* the package the schema declares: the name of its first package directive
isPackage(it) == PACKAGE_NAME_RES \in DOMAIN it /\ ~isEnum(it)
declaredPackage ==
    IF \E i \in DOMAIN parseResults : isPackage(parseResults[i])
    THEN parseResults[CHOOSE i \in DOMAIN parseResults :
            /\ isPackage(parseResults[i])
            /\ \A j \in 1..(i - 1) : ~isPackage(parseResults[j])].packageName
    ELSE <<>>

\* the package split on '.', each segment capitalized, joined with '_'
Root(pkg) ==
    join([i \in DOMAIN split(pkg, ".") |-> capitalize(split(pkg, ".")[i])], "_")

C13_Container(name, cmd) ==
    /\ cmd # None <=> named(name) # {}
    /\ cmd # None
       => /\ cmd.commandId = Root(declaredPackage) \o <<"_">> \o name
          /\ cmd.serviceId = declaredPackage \o <<".">> \o name

\* C13: the command (the event) is present exactly when a top-level message
\* is declared under the name Command (Event), a nested message or an enum
\* of that name giving none; its commandId is Root_name and its serviceId
\* package.name, for the declared package and the Root made of it, both
\* empty when no package is declared.
C13_ContainerOfTopLevelMessage ==
    pc = "done"
    => /\ C13_Container(sCommand, result.command)
       /\ C13_Container(sEvent, result.event)

\* the same, for the schemas in which no enum has a value named packageName
C13_ContainerPlainEnums ==
    pc = "done"
    /\ (\A i \in DOMAIN source : source[i].s # resultsNames.packageName)
    => /\ C13_Container(sCommand, result.command)
       /\ C13_Container(sEvent, result.event)

(***************************************************************************)
(* C14                                                                     *)
(***************************************************************************)
\* a top-level message named raw is declared after the last one named name,
\* and none before it
declaredLater(name, raw) ==
    /\ \E i \in DOMAIN parseResults :
          /\ i > lastNamed(name)
          /\ isMessage(parseResults[i])
          /\ parseResults[i].messageId = raw
    /\ \A i \in 1..lastNamed(name) :
          isDefn(parseResults[i]) => declaredName(parseResults[i]) # raw

C14_Later(name, cmd, M) ==
    cmd # None
    => LET raws == oneOfTypes(parseResults[lastNamed(name)].messageBody)
       IN  \A k \in DOMAIN cmd.oneOf :
              /\ declaredLater(name, raws[k])
              /\ ~known(M, cmd.commandId \o <<".">> \o raws[k])
              => /\ known(M, baseName \o <<"_">> \o raws[k])
                 /\ \E j \in DOMAIN M :
                       firstEnd(M, j, raws[k]) /\ cmd.oneOf[k].type = M[j].id

=============================================================================
